---- MODULE Spec2Model ----
(***************************************************************************)
(* A model of the task service of src/main.py: the "users" table (UserDB)  *)
(* and the request handlers create_task, update_task and delete_task.      *)
(*                                                                         *)
(* An Optional value is a sequence of length at most one: <<>> is None and *)
(* <<v>> is the value v.  A date is a day number, a datetime a tick number.*)
(***************************************************************************)
EXTENDS Integers, Sequences, FiniteSets, TLC

VARIABLES
    tasks,      \* the rows of the table: id -> row (UserDB)
    today,      \* date.today()
    now,        \* datetime.now()
    response,   \* what the last finished request returned
    hist,       \* history of each stored row (not program state, see History)
    requests    \* the requests in flight: worker -> its handler's local state

vars == <<tasks, today, now, response, hist, requests>>

-----------------------------------------------------------------------------
(* Bounds of the model.                                                    *)

MaxId == 1          \* rows of the table in Spec
QuotaMaxId == 6     \* rows of the table in SpecQuota
RaceMaxId == 6      \* rows of the table in SpecRace
MaxNow == 1         \* last tick of the clock
MaxDay == 2         \* last day of the calendar
MaxUpdates == 3     \* successful updates of a row that are counted
DaysMaxId == 2      \* rows of the table in SpecDays
FieldsMaxId == 1    \* rows of the table in SpecFields
OrderMaxId == 5     \* rows of the table in SpecOrder
StatsMaxId == 2     \* rows of the table in SpecStats
ReadMaxId == 2      \* rows of the table in SpecRead
Workers == {"w1", "w2"}

-----------------------------------------------------------------------------
(* The table and the request body.                                         *)

None == <<>>

Some(v) == <<v>>

Priorities == {"low", "medium", "high"}

Statuses == {"pending", "in_progress", "completed"}

\* class CreateTask: the fields of a request body.
CreateTask(titles, descriptions, priorities, statuses, due_dates, completed_ats) ==
    [title : titles, description : descriptions, priority : priorities,
     status : statuses, due_date : due_dates, completed_at : completed_ats]

\* class UserDB, built from a body by UserDB(**task.model_dump()).
UserDB(task) ==
    [title |-> task.title, description |-> task.description,
     priority |-> task.priority, status |-> task.status,
     due_date |-> task.due_date, completed_at |-> task.completed_at]

\* db.query(UserDB).filter(priority == "high", status == "pending").count()
high_priority_count(ts) ==
    Cardinality({id \in DOMAIN ts :
                    ts[id].priority = "high" /\ ts[id].status = "pending"})

\* db.query(UserDB).filter(UserDB.id == task_id).first()
first(ts, task_id) == IF task_id \in DOMAIN ts THEN Some(ts[task_id]) ELSE None

MaxOf(S) == CHOOSE m \in S : \A n \in S : n <= m

\* The id the table gives a new row: an INTEGER PRIMARY KEY column of SQLite
\* takes one more than the largest id in the table.
NextId(ts) == IF DOMAIN ts = {} THEN 1 ELSE MaxOf(DOMAIN ts) + 1

\* db.add(row); db.commit()
Insert(ts, id, row) == [i \in DOMAIN ts \cup {id} |-> IF i = id THEN row ELSE ts[i]]

\* db.delete(row); db.commit()
Remove(ts, id) == [i \in DOMAIN ts \ {id} |-> ts[i]]

-----------------------------------------------------------------------------
(* Responses.                                                              *)

\* raise HTTPException(status_code, detail)
HTTPException(op, status_code, detail) ==
    [op |-> op, status_code |-> status_code, detail |-> detail, id |-> 0]

\* A returned row (status 200); id is the row's id, 0 for delete_task.
Returned(op, id, detail) ==
    [op |-> op, status_code |-> 200, detail |-> detail, id |-> id]

NoResponse == [op |-> "", status_code |-> 0, detail |-> "", id |-> 0]

Ok == ""

\* The detail strings of the handlers' HTTPExceptions.
InvalidDueDate == "Possible nahi hein"

InvalidPriority == "Invalid priority value"

CreateQuota == "Cannot create more than 5 high priority tasks"

UpdateQuota ==
    "Cannot update to high priority task as there are already 5 high priority tasks"

InvalidStatus == "Invalid status value"

CannotRevert == "Cannot revert status from completed to pending or in_progress"

InvalidTransition == "Invalid status transition"

NotFound == "Task not found"

Deleted == "Task deleted successfully"

-----------------------------------------------------------------------------
(* create_task: the checks, in the order of the code; the detail of the    *)
(* first one that fails, Ok when none does.                                *)

\* Variant: the quota compared with > instead of >=.
create_task_checks_gt(count, task, td) ==
    IF task.due_date <= td THEN InvalidDueDate
    ELSE IF task.priority \notin Priorities THEN InvalidPriority
    ELSE IF task.priority = "high" /\ count > 5 THEN CreateQuota
    ELSE IF task.status \notin Statuses THEN InvalidStatus
    ELSE Ok

\* Variant: the quota reached one row early.
create_task_checks_early(count, task, td) ==
    IF task.due_date <= td THEN InvalidDueDate
    ELSE IF task.priority \notin Priorities THEN InvalidPriority
    ELSE IF task.priority = "high" /\ count >= 4 THEN CreateQuota
    ELSE IF task.status \notin Statuses THEN InvalidStatus
    ELSE Ok

\* Variant: the status is not checked.
create_task_checks_nostatus(count, task, td) ==
    IF task.due_date <= td THEN InvalidDueDate
    ELSE IF task.priority \notin Priorities THEN InvalidPriority
    ELSE IF task.priority = "high" /\ count >= 5 THEN CreateQuota
    ELSE Ok

\* Variant: the status checked before the quota.
create_task_checks_order(count, task, td) ==
    IF task.due_date <= td THEN InvalidDueDate
    ELSE IF task.priority \notin Priorities THEN InvalidPriority
    ELSE IF task.status \notin Statuses THEN InvalidStatus
    ELSE IF task.priority = "high" /\ count >= 5 THEN CreateQuota
    ELSE Ok

create_task_checks(count, task, td) ==
    IF task.due_date <= td THEN InvalidDueDate
    ELSE IF task.priority \notin Priorities THEN InvalidPriority
    ELSE IF task.priority = "high" /\ count >= 5 THEN CreateQuota
    ELSE IF task.status \notin Statuses THEN InvalidStatus
    ELSE Ok

\* The history kept beside a row: was it created with no completed_at,
\* how many counted updates of it have succeeded (up to MaxUpdates), and
\* has an update moved it from in_progress to completed.
History(task) ==
    [created_null |-> task.completed_at = None, completed_by_update |-> FALSE,
     updates |-> 0]

\* The history after a successful update of the row: it was completed by
\* this update or an earlier one, and one more update has succeeded (the
\* specification that follows the number of updates has them counted).
Updated(h, task, updated_task, counted) ==
    [h EXCEPT !.completed_by_update =
                @ \/ (task.status = "in_progress"
                        /\ updated_task.status = "completed"),
              !.updates = IF counted /\ @ < MaxUpdates THEN @ + 1 ELSE @]

\* Variant: the count is read again at the insert, in one transaction.
create_task_finish_recount(count, task) ==
    LET detail == create_task_checks(high_priority_count(tasks), task, today)
        id == NextId(tasks)
    IN  IF detail # Ok
        THEN /\ response' = HTTPException("create_task", 400, detail)
             /\ UNCHANGED <<tasks, hist>>
        ELSE /\ tasks' = Insert(tasks, id, UserDB(task))
             /\ hist' = Insert(hist, id, History(task))
             /\ response' = Returned("create_task", id, Ok)

\* The whole handler, given the count its first query read.
create_task_finish(count, task) ==
    LET detail == create_task_checks(count, task, today)
        id == NextId(tasks)
    IN  IF detail # Ok
        THEN /\ response' = HTTPException("create_task", 400, detail)
             /\ UNCHANGED <<tasks, hist>>
        ELSE /\ tasks' = Insert(tasks, id, UserDB(task))
             /\ hist' = Insert(hist, id, History(task))
             /\ response' = Returned("create_task", id, Ok)

\* POST /tasks, run with no other request in flight.
create_task(task) ==
    /\ create_task_finish(high_priority_count(tasks), task)
    /\ UNCHANGED <<today, now, requests>>

-----------------------------------------------------------------------------
(* delete_task                                                             *)

\* Variant: a missing row is reported as deleted.
delete_task_silent(task_id) ==
    /\ IF first(tasks, task_id) = None
       THEN /\ response' = Returned("delete_task", 0, Deleted)
            /\ UNCHANGED <<tasks, hist>>
       ELSE /\ tasks' = Remove(tasks, task_id)
            /\ hist' = Remove(hist, task_id)
            /\ response' = Returned("delete_task", 0, Deleted)
    /\ UNCHANGED <<today, now, requests>>

\* DELETE /tasks/{task_id}
delete_task(task_id) ==
    /\ IF first(tasks, task_id) = None
       THEN /\ response' = HTTPException("delete_task", 404, NotFound)
            /\ UNCHANGED <<tasks, hist>>
       ELSE /\ tasks' = Remove(tasks, task_id)
            /\ hist' = Remove(hist, task_id)
            /\ response' = Returned("delete_task", 0, Deleted)
    /\ UNCHANGED <<today, now, requests>>

-----------------------------------------------------------------------------
(* update_task                                                             *)

\* Is this row counted by high_priority_count.
Counted(task) == IF task.priority = "high" /\ task.status = "pending" THEN 1 ELSE 0

\* Variant: the row being updated is left out of the count.
update_task_checks_others(count, task, updated_task, td) ==
    IF task = None THEN <<404, NotFound>>
    ELSE IF updated_task.due_date <= td THEN <<400, InvalidDueDate>>
    ELSE IF updated_task.priority \notin Priorities THEN <<400, InvalidPriority>>
    ELSE IF updated_task.priority = "high" /\ count - Counted(task[1]) >= 5
        THEN <<400, UpdateQuota>>
    ELSE IF task[1].status = "pending" /\ updated_task.status = "in_progress"
        THEN <<200, Ok>>
    ELSE IF task[1].status = "in_progress" /\ updated_task.status = "completed"
        THEN <<200, Ok>>
    ELSE IF task[1].status = "completed"
              /\ updated_task.status \in {"pending", "in_progress"}
        THEN <<400, CannotRevert>>
    ELSE IF updated_task.status \notin Statuses THEN <<400, InvalidStatus>>
    ELSE <<400, InvalidTransition>>

\* Variant: pending may also go to completed.
update_task_checks_skip(count, task, updated_task, td) ==
    IF task = None THEN <<404, NotFound>>
    ELSE IF updated_task.due_date <= td THEN <<400, InvalidDueDate>>
    ELSE IF updated_task.priority \notin Priorities THEN <<400, InvalidPriority>>
    ELSE IF updated_task.priority = "high" /\ count >= 5
        THEN <<400, UpdateQuota>>
    ELSE IF task[1].status = "pending" /\ updated_task.status \in {"in_progress", "completed"}
        THEN <<200, Ok>>
    ELSE IF task[1].status = "in_progress" /\ updated_task.status = "completed"
        THEN <<200, Ok>>
    ELSE IF task[1].status = "completed"
              /\ updated_task.status \in {"pending", "in_progress"}
        THEN <<400, CannotRevert>>
    ELSE IF updated_task.status \notin Statuses THEN <<400, InvalidStatus>>
    ELSE <<400, InvalidTransition>>

\* Variant: in_progress is accepted from any stored status.
update_task_checks_any(count, task, updated_task, td) ==
    IF task = None THEN <<404, NotFound>>
    ELSE IF updated_task.due_date <= td THEN <<400, InvalidDueDate>>
    ELSE IF updated_task.priority \notin Priorities THEN <<400, InvalidPriority>>
    ELSE IF updated_task.priority = "high" /\ count >= 5
        THEN <<400, UpdateQuota>>
    ELSE IF updated_task.status = "in_progress"
        THEN <<200, Ok>>
    ELSE IF task[1].status = "in_progress" /\ updated_task.status = "completed"
        THEN <<200, Ok>>
    ELSE IF task[1].status = "completed"
              /\ updated_task.status \in {"pending", "in_progress"}
        THEN <<400, CannotRevert>>
    ELSE IF updated_task.status \notin Statuses THEN <<400, InvalidStatus>>
    ELSE <<400, InvalidTransition>>

\* Variant: the due date is checked before the row is looked for.
update_task_checks_order(count, task, updated_task, td) ==
    IF updated_task.due_date <= td THEN <<400, InvalidDueDate>>
    ELSE IF task = None THEN <<404, NotFound>>
    ELSE IF updated_task.priority \notin Priorities THEN <<400, InvalidPriority>>
    ELSE IF updated_task.priority = "high" /\ count >= 5
        THEN <<400, UpdateQuota>>
    ELSE IF task[1].status = "pending" /\ updated_task.status = "in_progress"
        THEN <<200, Ok>>
    ELSE IF task[1].status = "in_progress" /\ updated_task.status = "completed"
        THEN <<200, Ok>>
    ELSE IF task[1].status = "completed"
              /\ updated_task.status \in {"pending", "in_progress"}
        THEN <<400, CannotRevert>>
    ELSE IF updated_task.status \notin Statuses THEN <<400, InvalidStatus>>
    ELSE <<400, InvalidTransition>>

\* Variant: a completed row may be edited while it stays completed.
update_task_checks_edit(count, task, updated_task, td) ==
    IF task = None THEN <<404, NotFound>>
    ELSE IF updated_task.due_date <= td THEN <<400, InvalidDueDate>>
    ELSE IF updated_task.priority \notin Priorities THEN <<400, InvalidPriority>>
    ELSE IF updated_task.priority = "high" /\ count >= 5
        THEN <<400, UpdateQuota>>
    ELSE IF task[1].status = "pending" /\ updated_task.status = "in_progress"
        THEN <<200, Ok>>
    ELSE IF task[1].status = "in_progress" /\ updated_task.status = "completed"
        THEN <<200, Ok>>
    ELSE IF task[1].status = "completed" /\ updated_task.status = "completed"
        THEN <<200, Ok>>
    ELSE IF task[1].status = "completed"
              /\ updated_task.status \in {"pending", "in_progress"}
        THEN <<400, CannotRevert>>
    ELSE IF updated_task.status \notin Statuses THEN <<400, InvalidStatus>>
    ELSE <<400, InvalidTransition>>

\* Variant: an update that keeps the stored status is accepted.
update_task_checks_same(count, task, updated_task, td) ==
    IF task = None THEN <<404, NotFound>>
    ELSE IF updated_task.due_date <= td THEN <<400, InvalidDueDate>>
    ELSE IF updated_task.priority \notin Priorities THEN <<400, InvalidPriority>>
    ELSE IF updated_task.priority = "high" /\ count >= 5
        THEN <<400, UpdateQuota>>
    ELSE IF task[1].status = "pending"
              /\ updated_task.status \in {"pending", "in_progress"}
        THEN <<200, Ok>>
    ELSE IF task[1].status = "in_progress" /\ updated_task.status = "completed"
        THEN <<200, Ok>>
    ELSE IF task[1].status = "completed"
              /\ updated_task.status \in {"pending", "in_progress"}
        THEN <<400, CannotRevert>>
    ELSE IF updated_task.status \notin Statuses THEN <<400, InvalidStatus>>
    ELSE <<400, InvalidTransition>>

\* Variant: a due date of today is accepted.
update_task_checks_due(count, task, updated_task, td) ==
    IF task = None THEN <<404, NotFound>>
    ELSE IF updated_task.due_date < td THEN <<400, InvalidDueDate>>
    ELSE IF updated_task.priority \notin Priorities THEN <<400, InvalidPriority>>
    ELSE IF updated_task.priority = "high" /\ count >= 5
        THEN <<400, UpdateQuota>>
    ELSE IF task[1].status = "pending" /\ updated_task.status = "in_progress"
        THEN <<200, Ok>>
    ELSE IF task[1].status = "in_progress" /\ updated_task.status = "completed"
        THEN <<200, Ok>>
    ELSE IF task[1].status = "completed"
              /\ updated_task.status \in {"pending", "in_progress"}
        THEN <<400, CannotRevert>>
    ELSE IF updated_task.status \notin Statuses THEN <<400, InvalidStatus>>
    ELSE <<400, InvalidTransition>>

\* The checks of update_task on the row its query found (None: no such row),
\* in the order of the code: <<status code, detail>>.
update_task_checks(count, task, updated_task, td) ==
    IF task = None THEN <<404, NotFound>>
    ELSE IF updated_task.due_date <= td THEN <<400, InvalidDueDate>>
    ELSE IF updated_task.priority \notin Priorities THEN <<400, InvalidPriority>>
    ELSE IF updated_task.priority = "high" /\ count >= 5
        THEN <<400, UpdateQuota>>
    ELSE IF task[1].status = "pending" /\ updated_task.status = "in_progress"
        THEN <<200, Ok>>
    ELSE IF task[1].status = "in_progress" /\ updated_task.status = "completed"
        THEN <<200, Ok>>
    ELSE IF task[1].status = "completed"
              /\ updated_task.status \in {"pending", "in_progress"}
        THEN <<400, CannotRevert>>
    ELSE IF updated_task.status \notin Statuses THEN <<400, InvalidStatus>>
    ELSE <<400, InvalidTransition>>

\* Variant: completed_at is left as the caller sent it.
transition_kept(task, updated_task, nw) == updated_task

\* The body after the transition branch: in_progress -> completed sets
\* updated_task.completed_at = datetime.now(); no other branch touches it.
transition(task, updated_task, nw) ==
    IF task.status = "in_progress" /\ updated_task.status = "completed"
    THEN [updated_task EXCEPT !.completed_at = Some(nw)]
    ELSE updated_task

\* The six assignments task.<field> = updated_task.<field>.
assign(task, updated_task) ==
    [task EXCEPT !.title = updated_task.title,
                 !.description = updated_task.description,
                 !.priority = updated_task.priority,
                 !.status = updated_task.status,
                 !.due_date = updated_task.due_date,
                 !.completed_at = updated_task.completed_at]

\* Variant: the status is written before the checks.
update_task_early(task_id, updated_task) ==
    /\ LET count == high_priority_count(tasks)
           task == first(tasks, task_id)
           res == update_task_checks(count, task, updated_task, today)
       IN  IF res[1] = 404
           THEN /\ response' = HTTPException("update_task", res[1], res[2])
                /\ UNCHANGED <<tasks, hist>>
           ELSE IF res[1] # 200
           THEN /\ response' = HTTPException("update_task", res[1], res[2])
                /\ tasks' = [tasks EXCEPT ![task_id].status = updated_task.status]
                /\ UNCHANGED hist
           ELSE /\ tasks' = [tasks EXCEPT ![task_id] =
                                assign(@, transition(@, updated_task, now))]
                /\ hist' = [hist EXCEPT ![task_id] = Updated(@, task[1], updated_task, FALSE)]
                /\ response' = Returned("update_task", task_id, Ok)
    /\ UNCHANGED <<today, now, requests>>

\* PUT /tasks/{task_id}, run with no other request in flight.
update_task_counting(task_id, updated_task, counted) ==
    /\ LET count == high_priority_count(tasks)
           task == first(tasks, task_id)
           res == update_task_checks(count, task, updated_task, today)
       IN  IF res[1] # 200
           THEN /\ response' = HTTPException("update_task", res[1], res[2])
                /\ UNCHANGED <<tasks, hist>>
           ELSE /\ tasks' = [tasks EXCEPT ![task_id] =
                                assign(@, transition(@, updated_task, now))]
                /\ hist' = [hist EXCEPT ![task_id] =
                                Updated(@, task[1], updated_task, counted)]
                /\ response' = Returned("update_task", task_id, Ok)
    /\ UNCHANGED <<today, now, requests>>

update_task(task_id, updated_task) ==
    update_task_counting(task_id, updated_task, FALSE)

-----------------------------------------------------------------------------
(* The clock.                                                              *)

\* Time passes between two requests.
Tick ==
    /\ now < MaxNow
    /\ now' = now + 1
    /\ UNCHANGED <<tasks, today, response, hist, requests>>

-----------------------------------------------------------------------------
(* Spec: requests run one at a time on a small table, with every kind of   *)
(* input.                                                                  *)

Idle == [w \in Workers |-> [pc |-> "idle"]]

Init ==
    /\ tasks = <<>>
    /\ hist = <<>>
    /\ today = 0
    /\ now = 0
    /\ response = NoResponse
    /\ requests = Idle

\* The bodies a caller sends: each field valid or not, a completed_at given
\* or not.
Bodies ==
    CreateTask({"t1"}, {None}, {"low", "high", "urgent"},
               {"pending", "in_progress", "completed", "archived"},
               {today, today + 1}, {None, Some(0)})

Create == \E task \in Bodies : NextId(tasks) <= MaxId /\ create_task(task)

Update == \E task_id \in 1..MaxId, task \in Bodies : update_task(task_id, task)

Delete == \E task_id \in 1..MaxId : delete_task(task_id)

Next == Create \/ Update \/ Delete \/ Tick

Spec == Init /\ [][Next]_vars

-----------------------------------------------------------------------------
(* SpecQuota: requests run one at a time on a table large enough to reach  *)
(* the quota of 5 high-priority pending rows.                              *)

\* Bodies of create_task: any priority, a status that is pending or invalid.
QuotaCreateBodies ==
    CreateTask({"t1"}, {None}, {"low", "high", "urgent"}, {"pending", "archived"},
               {today, today + 1}, {None})

\* Bodies of update_task: priority high or invalid, any status but completed.
QuotaUpdateBodies ==
    CreateTask({"t1"}, {None}, {"high", "urgent"},
               {"pending", "in_progress", "archived"},
               {today, today + 1}, {None})

QuotaCreate ==
    \E task \in QuotaCreateBodies :
        NextId(tasks) <= QuotaMaxId /\ create_task(task)

QuotaUpdate ==
    \E task_id \in 1..QuotaMaxId, task \in QuotaUpdateBodies :
        update_task(task_id, task)

QuotaDelete == \E task_id \in 1..QuotaMaxId : delete_task(task_id)

NextQuota == QuotaCreate \/ QuotaUpdate \/ QuotaDelete

SpecQuota == Init /\ [][NextQuota]_vars

-----------------------------------------------------------------------------
(* SpecOrder: creates of high rows up to the quota, and updates with every *)
(* kind of invalid field, one request at a time.                           *)

OrderCreateBodies ==
    CreateTask({"t1"}, {None}, {"high"}, {"pending"}, {today + 1}, {None})

OrderUpdateBodies ==
    CreateTask({"t1"}, {None}, {"high", "urgent"},
               {"pending", "in_progress", "archived"},
               {today, today + 1}, {None})

OrderCreate ==
    \E task \in OrderCreateBodies :
        NextId(tasks) <= OrderMaxId /\ create_task(task)

OrderUpdate ==
    \E task_id \in 1..(OrderMaxId + 1), task \in OrderUpdateBodies :
        update_task(task_id, task)

NextOrder == OrderCreate \/ OrderUpdate

SpecOrder == Init /\ [][NextOrder]_vars

-----------------------------------------------------------------------------
(* SpecFields: creates, updates and deletes, one request at a time, whose  *)
(* bodies differ from one another in one field besides the status; the     *)
(* successful updates of a row are counted.                                *)

FieldsBase(status) ==
    [title |-> "t1", description |-> None, priority |-> "low",
     status |-> status, due_date |-> today + 1, completed_at |-> None]

FieldsBodies ==
    UNION {{task,
            [task EXCEPT !.title = "t2"],
            [task EXCEPT !.description = Some("d")],
            [task EXCEPT !.priority = "high"],
            [task EXCEPT !.due_date = today + 2],
            [task EXCEPT !.completed_at = Some(1)]} :
           task \in {FieldsBase(status) :
                        status \in {"pending", "in_progress", "completed",
                                    "archived"}}}

FieldsCreate ==
    \E task \in FieldsBodies :
        NextId(tasks) <= FieldsMaxId /\ create_task(task)

FieldsUpdate ==
    \E task_id \in 1..FieldsMaxId, task \in FieldsBodies :
        update_task_counting(task_id, task, TRUE)

FieldsDelete == \E task_id \in 1..FieldsMaxId : delete_task(task_id)

NextFields == FieldsCreate \/ FieldsUpdate \/ FieldsDelete

SpecFields == Init /\ [][NextFields]_vars

-----------------------------------------------------------------------------
(* SpecRace: two workers serve create_task requests at once.  A handler    *)
(* runs its count query, and later validates and commits; the other        *)
(* worker's steps may fall in between (no lock or transaction spans the    *)
(* query and the insert).                                                  *)

\* Lines 65-69: the handler has read high_priority_count.
create_task_begin(w, task) ==
    /\ requests[w].pc = "idle"
    /\ requests' = [requests EXCEPT ![w] =
            [pc |-> "create_task", task |-> task,
             high_priority_count |-> high_priority_count(tasks)]]
    /\ UNCHANGED <<tasks, today, now, response, hist>>

\* Lines 70-90: the checks on the count read earlier, then the insert.
create_task_end(w) ==
    /\ requests[w].pc = "create_task"
    /\ create_task_finish(requests[w].high_priority_count, requests[w].task)
    /\ requests' = [requests EXCEPT ![w] = [pc |-> "idle"]]
    /\ UNCHANGED <<today, now>>

RaceBodies ==
    CreateTask({"t1"}, {None}, {"low", "high"}, {"pending"}, {today + 1}, {None})

RaceBegin ==
    \E w \in Workers, task \in RaceBodies :
        NextId(tasks) <= RaceMaxId /\ create_task_begin(w, task)

RaceEnd == \E w \in Workers : NextId(tasks) <= RaceMaxId /\ create_task_end(w)

NextRace == RaceBegin \/ RaceEnd

SpecRace == Init /\ [][NextRace]_vars

-----------------------------------------------------------------------------
(* SpecUpdates: two workers serve update_task requests at once.  A handler *)
(* runs its two queries, and later validates against the row it loaded and *)
(* commits; the other worker's steps may fall in between.                  *)

UpdatesMaxId == 1   \* rows of the table in SpecUpdates

\* db.commit() of a loaded row: the UPDATE sets the columns whose assigned
\* value differs from the loaded one, and leaves the others as stored.
flush(row, loaded, assigned) ==
    [f \in DOMAIN row |-> IF assigned[f] # loaded[f] THEN assigned[f] ELSE row[f]]

\* Lines 160-165: the handler has read high_priority_count and the row.
update_task_begin(w, task_id, updated_task) ==
    /\ requests[w].pc = "idle"
    /\ requests' = [requests EXCEPT ![w] =
            [pc |-> "update_task", task_id |-> task_id,
             updated_task |-> updated_task,
             high_priority_count |-> high_priority_count(tasks),
             task |-> first(tasks, task_id)]]
    /\ UNCHANGED <<tasks, today, now, response, hist>>

\* Variant: the row is read again at the commit, in one transaction.
update_task_finish_reread(count, task, task_id, updated_task) ==
    LET stored == first(tasks, task_id)
        res == update_task_checks(count, stored, updated_task, today)
    IN  IF res[1] # 200
        THEN /\ response' = HTTPException("update_task", res[1], res[2])
             /\ UNCHANGED <<tasks, hist>>
        ELSE /\ tasks' = [tasks EXCEPT ![task_id] =
                            assign(@, transition(@, updated_task, now))]
             /\ hist' = [hist EXCEPT ![task_id] = Updated(@, stored[1], updated_task, FALSE)]
             /\ response' = Returned("update_task", task_id, Ok)

\* Lines 166-211, given the count and the row (task) the queries read: the
\* checks and the assignments are made on the loaded row, the commit writes
\* to the stored one.  No request deletes rows in SpecUpdates.
update_task_finish(count, task, task_id, updated_task) ==
    LET res == update_task_checks(count, task, updated_task, today)
    IN  IF res[1] # 200
        THEN /\ response' = HTTPException("update_task", res[1], res[2])
             /\ UNCHANGED <<tasks, hist>>
        ELSE /\ tasks' = [tasks EXCEPT ![task_id] =
                            flush(@, task[1],
                                  assign(task[1],
                                         transition(task[1], updated_task, now)))]
             /\ hist' = [hist EXCEPT ![task_id] = Updated(@, task[1], updated_task, FALSE)]
             /\ response' = Returned("update_task", task_id, Ok)

update_task_end(w) ==
    /\ requests[w].pc = "update_task"
    /\ update_task_finish(requests[w].high_priority_count, requests[w].task,
                          requests[w].task_id, requests[w].updated_task)
    /\ requests' = [requests EXCEPT ![w] = [pc |-> "idle"]]
    /\ UNCHANGED <<today, now>>

UpdatesCreateBodies ==
    CreateTask({"t1"}, {None}, {"low"}, {"pending"}, {today + 1}, {None})

UpdatesBodies ==
    CreateTask({"t1"}, {None}, {"low"}, {"pending", "in_progress", "completed"},
               {today + 1}, {None})

UpdatesCreate ==
    \E task \in UpdatesCreateBodies :
        NextId(tasks) <= UpdatesMaxId /\ create_task(task)

UpdatesBegin ==
    \E w \in Workers, task_id \in 1..UpdatesMaxId, task \in UpdatesBodies :
        update_task_begin(w, task_id, task)

UpdatesEnd == \E w \in Workers : update_task_end(w)

NextUpdates == UpdatesCreate \/ UpdatesBegin \/ UpdatesEnd \/ Tick

SpecUpdates == Init /\ [][NextUpdates]_vars

-----------------------------------------------------------------------------
(* get_task_stats and get_tasks.                                           *)

\* db.query(UserDB.id).filter(...).count()
count(ts, filter(_)) == Cardinality({id \in DOMAIN ts : filter(ts[id])})

\* The filter of lines 111-113 and 130.
is_overdue(row, td) == row.due_date < td /\ row.status # "completed"

\* GET /tasks/stats: the six counts.
get_task_stats(ts, td) ==
    [total |-> Cardinality(DOMAIN ts),
     pending |-> count(ts, LAMBDA row : row.status = "pending"),
     in_progress |-> count(ts, LAMBDA row : row.status = "in_progress"),
     completed |-> count(ts, LAMBDA row : row.status = "completed"),
     overdue |-> count(ts, LAMBDA row : is_overdue(row, td)),
     high_priority_pending |->
        count(ts, LAMBDA row : row.priority = "high" /\ row.status = "pending")]

\* The ids of S in the order the table is scanned (by id, ascending).
RECURSIVE Ascending(_)
Ascending(S) ==
    IF S = {} THEN <<>>
    ELSE LET m == MaxOf(S) IN Append(Ascending(S \ {m}), m)

\* Python's truth value of an optional string and of an optional bool.
truthy_str(v) == v # None /\ v[1] # ""

truthy_bool(v) == v = Some(TRUE)

\* query.offset(offset).limit(limit).all()
offset_limit(rows, offset, limit) ==
    SubSeq(rows, offset + 1, IF offset + limit < Len(rows)
                             THEN offset + limit ELSE Len(rows))

\* Variant: the offset counted in pages, not in rows.
get_tasks_pages(ts, td, priority, status, overdue, page, limit) ==
    LET matches(row) ==
            /\ truthy_str(priority) => row.priority = priority[1]
            /\ truthy_str(status) => row.status = status[1]
            /\ truthy_bool(overdue) => is_overdue(row, td)
        query == Ascending({id \in DOMAIN ts : matches(ts[id])})
    IN  offset_limit(query, page - 1, limit)

\* GET /tasks: the ids of the rows returned, in order.
get_tasks(ts, td, priority, status, overdue, page, limit) ==
    LET matches(row) ==
            /\ truthy_str(priority) => row.priority = priority[1]
            /\ truthy_str(status) => row.status = status[1]
            /\ truthy_bool(overdue) => is_overdue(row, td)
        query == Ascending({id \in DOMAIN ts : matches(ts[id])})
        offset == (page - 1) * limit
    IN  offset_limit(query, offset, limit)

\* A returned body (status 200) of a handler that reads only.
Read(op, body) ==
    [op |-> op, status_code |-> 200, detail |-> Ok, id |-> 0, body |-> body]

GetStats ==
    /\ response' = Read("get_task_stats", get_task_stats(tasks, today))
    /\ UNCHANGED <<tasks, today, now, hist, requests>>

GetTasks(priority, status, overdue, page, limit) ==
    /\ response' = Read("get_tasks",
                        get_tasks(tasks, today, priority, status, overdue,
                                  page, limit))
    /\ UNCHANGED <<tasks, today, now, hist, requests>>

\* The date changes between two requests.
NewDay ==
    /\ today < MaxDay
    /\ today' = today + 1
    /\ UNCHANGED <<tasks, now, response, hist, requests>>

-----------------------------------------------------------------------------
(* SpecStats: creates, updates, deletes and get_task_stats, one at a time. *)

StatsBodies ==
    CreateTask({"t1"}, {None}, {"high"},
               {"pending", "in_progress", "completed", "archived"},
               {today + 1}, {None})

StatsCreate ==
    \E task \in StatsBodies : NextId(tasks) <= StatsMaxId /\ create_task(task)

StatsUpdate ==
    \E task_id \in 1..StatsMaxId, task \in StatsBodies : update_task(task_id, task)

StatsDelete == \E task_id \in 1..StatsMaxId : delete_task(task_id)

NextStats == StatsCreate \/ StatsUpdate \/ StatsDelete \/ GetStats

SpecStats == Init /\ [][NextStats]_vars

-----------------------------------------------------------------------------
(* SpecRead: creates and deletes, the date advancing, and the two reading  *)
(* handlers, one request at a time.                                        *)

ReadBodies ==
    CreateTask({"t1"}, {None}, {"low", "high"}, {"pending", "completed"},
               {today + 1}, {None})

\* The page and limit parameters: page >= 1 and 1 <= limit <= 100 are
\* enforced by Query(ge=1) and Query(ge=1, le=100); a limit above the number
\* of rows returns what the number of rows returns.
ReadPages == 1..(ReadMaxId + 1)

ReadLimits == 1..ReadMaxId

\* The values of the priority, status and overdue parameters.
ReadPriorities == {None, Some("high"), Some("low"), Some("")}

ReadStatuses == {None, Some("pending"), Some("completed"), Some("")}

ReadOverdues == {None, Some(TRUE), Some(FALSE)}

ReadCreate ==
    \E task \in ReadBodies : NextId(tasks) <= ReadMaxId /\ create_task(task)

ReadDelete == \E task_id \in 1..ReadMaxId : delete_task(task_id)

ReadTasks ==
    \E priority \in {None, Some("high"), Some("")}, status \in {None, Some("pending")},
       overdue \in {None, Some(TRUE)}, page \in ReadPages, limit \in ReadLimits :
        GetTasks(priority, status, overdue, page, limit)

NextRead == ReadCreate \/ ReadDelete \/ NewDay \/ ReadTasks \/ GetStats

SpecRead == Init /\ [][NextRead]_vars

-----------------------------------------------------------------------------
(* SpecDays: creates, updates and deletes, one request at a time, with the *)
(* date advancing between them; the due dates sent are yesterday, today or *)
(* tomorrow.                                                               *)

DaysBodies ==
    CreateTask({"t1"}, {None}, {"low"},
               {"pending", "in_progress", "completed"},
               {today - 1, today, today + 1}, {None})

DaysCreate ==
    \E task \in DaysBodies : NextId(tasks) <= DaysMaxId /\ create_task(task)

DaysUpdate ==
    \E task_id \in 1..DaysMaxId, task \in DaysBodies :
        update_task(task_id, task)

DaysDelete == \E task_id \in 1..DaysMaxId : delete_task(task_id)

NextDays == DaysCreate \/ DaysUpdate \/ DaysDelete \/ NewDay

SpecDays == Init /\ [][NextDays]_vars

-----------------------------------------------------------------------------
(* The quota (SpecQuota).                                                  *)

\* C1: with requests run one at a time from an empty table, the number of
\* rows with priority high and status pending is at most 5.
C1_QuotaHolds == high_priority_count(tasks) <= 5

\* The table holds 5 such rows and a further create has just been refused.
C1_Witness ==
    /\ high_priority_count(tasks) = 5
    /\ response = HTTPException("create_task", 400, CreateQuota)

\* C2: a create with a due date after today and priority high is refused
\* with the quota error exactly when 5 or more rows are high and pending
\* before the insert; with fewer, a pending one is stored and counted.
C2_CreateQuotaExact ==
    [][response'.op = "create_task" =>
       \A task \in QuotaCreateBodies :
        (task.due_date > today /\ task.priority = "high" /\ create_task(task))
        => /\ (response' = HTTPException("create_task", 400, CreateQuota))
                <=> (high_priority_count(tasks) >= 5)
           /\ (high_priority_count(tasks) < 5 /\ task.status = "pending")
                => /\ response'.status_code = 200
                   /\ high_priority_count(tasks')
                        = high_priority_count(tasks) + 1]_vars

\* The fifth high and pending row has just been created.
C2_Witness ==
    /\ high_priority_count(tasks) = 5
    /\ response.op = "create_task"
    /\ response.status_code = 200
    /\ tasks[response.id].priority = "high"
    /\ tasks[response.id].status = "pending"

\* C7: create_task reports the first failing check in the order due date,
\* priority, quota, status; a due date not after today fails with the
\* due-date error whatever the other fields and the count are.
C7_CreateOrder ==
    [][response'.op = "create_task" =>
       \A task \in QuotaCreateBodies :
        create_task(task)
        => LET due == task.due_date <= today
               priority == task.priority \notin {"low", "medium", "high"}
               quota == task.priority = "high" /\ high_priority_count(tasks) >= 5
               status == task.status \notin {"pending", "in_progress", "completed"}
           IN  /\ due => response'.detail = InvalidDueDate
               /\ ~due /\ priority => response'.detail = InvalidPriority
               /\ ~due /\ ~priority /\ quota => response'.detail = CreateQuota
               /\ ~due /\ ~priority /\ ~quota /\ status
                    => response'.detail = InvalidStatus
               /\ ~due /\ ~priority /\ ~quota /\ ~status
                    => response'.status_code = 200
               /\ response'.status_code \in {200, 400}]_vars

\* A create has just been refused for its due date while the quota is
\* reached.
C7_Witness ==
    /\ high_priority_count(tasks) >= 5
    /\ response = HTTPException("create_task", 400, InvalidDueDate)

\* C9: an update with priority high of a stored row, with a valid due date,
\* is refused with the quota error whenever 5 or more rows are high and
\* pending, the updated row counted among them.
C9_UpdateQuotaCountsItself ==
    [][(response'.op = "update_task" /\ high_priority_count(tasks) >= 5) =>
       \A task_id \in DOMAIN tasks, task \in QuotaUpdateBodies :
        (/\ task.due_date > today
         /\ task.priority = "high"
         /\ update_task(task_id, task))
        => /\ response' = HTTPException("update_task", 400, UpdateQuota)
           /\ tasks' = tasks]_vars

\* Every stored row is one of the 5 high and pending ones, and an update of
\* one of them has just been refused for the quota.
C9_Witness ==
    /\ high_priority_count(tasks) = 5
    /\ Cardinality(DOMAIN tasks) = 5
    /\ response = HTTPException("update_task", 400, UpdateQuota)

-----------------------------------------------------------------------------
(* The status transitions and completed_at (Spec); refusals (SpecQuota).   *)

\* The transition table of the specification: "succeeds" or the error.
TableOutcome(current, requested) ==
    IF <<current, requested>> \in {<<"pending", "in_progress">>,
                                   <<"in_progress", "completed">>}
    THEN "succeeds"
    ELSE IF current = "completed" /\ requested \in {"pending", "in_progress"}
    THEN CannotRevert
    ELSE IF requested \notin {"pending", "in_progress", "completed"}
    THEN InvalidStatus
    ELSE InvalidTransition

\* The due date, priority and quota checks of an update pass.
FieldsPass(task) ==
    /\ task.due_date > today
    /\ task.priority \in {"low", "medium", "high"}
    /\ ~(task.priority = "high" /\ high_priority_count(tasks) >= 5)

\* C3: for every stored status and requested status, an update of a stored
\* row whose due date, priority and quota checks pass ends as the
\* transition table says.
C3_TransitionTable ==
    [][response'.op = "update_task" =>
       \A task \in {t \in Bodies : FieldsPass(t)}, task_id \in DOMAIN tasks :
        update_task(task_id, task)
        => LET outcome == TableOutcome(tasks[task_id].status, task.status)
           IN  IF outcome = "succeeds"
               THEN /\ response' = Returned("update_task", task_id, Ok)
                    /\ tasks'[task_id].status = task.status
               ELSE /\ response' = HTTPException("update_task", 400, outcome)
                    /\ tasks' = tasks]_vars

\* An update has just been refused as an invalid transition.
C3_Witness ==
    /\ response = HTTPException("update_task", 400, InvalidTransition)
    /\ tasks # <<>>

\* C4: an update of a completed row that asks for pending or in_progress
\* fails whatever its other fields are, and a row that is completed is
\* still completed after any step that keeps it.
C4_CompletedNeverReverts ==
    [][/\ \A task_id \in DOMAIN tasks, task \in Bodies :
            (/\ response'.op = "update_task"
             /\ tasks[task_id].status = "completed"
             /\ task.status \in {"pending", "in_progress"}
             /\ update_task(task_id, task))
            => response'.status_code = 400 /\ tasks' = tasks
       /\ \A task_id \in DOMAIN tasks \cap DOMAIN tasks' :
            tasks[task_id].status = "completed"
            => tasks'[task_id].status = "completed"]_vars

\* A row is completed and an update has just been refused as a revert.
C4_Witness ==
    /\ response = HTTPException("update_task", 400, CannotRevert)
    /\ \E task_id \in DOMAIN tasks : tasks[task_id].status = "completed"

\* C5: a successful update of an in_progress row to completed stores the
\* current time as completed_at, whatever completed_at the caller sent.
C5_CompletedAtIsNow ==
    [][\A task_id \in DOMAIN tasks, task \in Bodies :
        (/\ response' = Returned("update_task", task_id, Ok)
         /\ tasks[task_id].status = "in_progress"
         /\ update_task(task_id, task))
        => /\ tasks'[task_id].status = "completed"
           /\ tasks'[task_id].completed_at = Some(now)]_vars

\* An update has just completed a row, after the caller-supplied time 0,
\* and the row carries the current time.
C5_Witness ==
    /\ response.op = "update_task"
    /\ response.status_code = 200
    /\ now > 0
    /\ tasks[response.id].status = "completed"
    /\ hist[response.id].completed_by_update
    /\ tasks[response.id].completed_at = Some(now)

\* C6: a row created with no completed_at has a completed_at exactly when
\* an update has moved it from in_progress to completed.
C6_CompletedAtIffCompletedByUpdate ==
    \A task_id \in DOMAIN tasks :
        hist[task_id].created_null
        => (tasks[task_id].completed_at # None
                <=> hist[task_id].completed_by_update)

\* C8: a step that ends in a refusal (the response of a refused create,
\* update or delete) leaves the table as it was.
C8_RefusalChangesNothing ==
    [][response'.status_code \in {400, 404} => tasks' = tasks]_vars

\* An update of a stored row has just been refused, several rows being
\* stored.
C8_Witness ==
    /\ response.op = "update_task"
    /\ response.status_code = 400
    /\ Cardinality(DOMAIN tasks) >= 2

-----------------------------------------------------------------------------
(* Concurrent creates (SpecRace).                                          *)

\* C10: a create that read a count below 5 inserts its high and pending row
\* when it commits, however many such rows the table holds by then; so
\* more than 5 such rows can be stored.
C10_RaceInserts ==
    [][\A w \in Workers :
        (/\ create_task_end(w)
         /\ requests[w].task.priority = "high"
         /\ requests[w].high_priority_count < 5)
        => /\ response'.status_code = 200
           /\ high_priority_count(tasks') = high_priority_count(tasks) + 1]_vars

\* More than 5 rows are high and pending.
C10_Witness == high_priority_count(tasks) > 5

-----------------------------------------------------------------------------
(* Concurrent updates (SpecUpdates).                                       *)

\* C11: an update whose loaded row passes the checks writes its requested
\* status when it commits, whatever status the row has by then; so a row
\* committed as completed can be set back to in_progress by an update that
\* loaded it as pending.
C11_RaceOverwrites ==
    [][\A w \in Workers :
        (/\ requests[w].pc = "update_task"
         /\ update_task_checks(requests[w].high_priority_count, requests[w].task,
                               requests[w].updated_task, today)[1] = 200
         /\ update_task_end(w))
        => /\ response' = Returned("update_task", requests[w].task_id, Ok)
           /\ tasks'[requests[w].task_id].status
                = requests[w].updated_task.status]_vars

\* A row that an update committed as completed is in_progress again.
C11_Witness ==
    \E task_id \in DOMAIN tasks :
        /\ hist[task_id].completed_by_update
        /\ tasks[task_id].status = "in_progress"
        /\ response = Returned("update_task", task_id, Ok)

-----------------------------------------------------------------------------
(* delete_task (SpecQuota).                                                *)

\* C12: a delete of an id that is not stored returns NotFound and changes
\* nothing; a delete of a stored id removes that row only and leaves every
\* other row as it was; the id stays absent until a create (so a second
\* delete of it returns NotFound).
C12_Delete ==
    [][/\ response'.op = "delete_task" =>
            \A task_id \in 1..QuotaMaxId :
                delete_task(task_id)
                => IF task_id \in DOMAIN tasks
                   THEN /\ response' = Returned("delete_task", 0, Deleted)
                        /\ DOMAIN tasks' = DOMAIN tasks \ {task_id}
                        /\ \A other \in DOMAIN tasks' : tasks'[other] = tasks[other]
                   ELSE /\ response' = HTTPException("delete_task", 404, NotFound)
                        /\ tasks' = tasks
       /\ response'.op # "create_task" => DOMAIN tasks' \subseteq DOMAIN tasks]_vars

\* A row below a stored one has been deleted, and a delete has just been
\* refused as NotFound.
C12_Witness ==
    /\ response = HTTPException("delete_task", 404, NotFound)
    /\ \E task_id \in DOMAIN tasks : task_id > 1 /\ task_id - 1 \notin DOMAIN tasks

-----------------------------------------------------------------------------
(* get_task_stats (SpecStats) and get_tasks (SpecRead).                    *)

\* C13: every stored row has one of the three statuses, so the pending,
\* in_progress and completed counts of get_task_stats add up to total.
C13_StatsPartition ==
    LET stats == get_task_stats(tasks, today)
    IN  /\ \A task_id \in DOMAIN tasks :
            tasks[task_id].status \in {"pending", "in_progress", "completed"}
        /\ stats.pending + stats.in_progress + stats.completed = stats.total
        /\ stats.total = Cardinality(DOMAIN tasks)
        /\ response.op = "get_task_stats" => response.body = stats

\* get_task_stats has just returned one in_progress and one completed row.
C13_Witness ==
    /\ response.op = "get_task_stats"
    /\ response.body.total = 2
    /\ response.body.in_progress = 1
    /\ response.body.completed = 1

\* The rows that are overdue: due before today and not completed.
Overdue ==
    {task_id \in DOMAIN tasks :
        tasks[task_id].due_date < today /\ tasks[task_id].status # "completed"}

\* The pages 1..n of a listing, one after the other.
RECURSIVE Pages(_, _, _, _, _)
Pages(priority, status, overdue, limit, n) ==
    IF n = 0 THEN <<>>
    ELSE Pages(priority, status, overdue, limit, n - 1)
            \o get_tasks(tasks, today, priority, status, overdue, n, limit)

Range(seq) == {seq[i] : i \in DOMAIN seq}

\* C14: with the date advancing, the pages of get_tasks with overdue=true
\* and no other filter hold exactly the overdue rows, each once, and the
\* overdue count of get_task_stats is their number.
C14_OverdueListing ==
    /\ \A limit \in ReadLimits :
        LET listed == Pages(None, None, Some(TRUE), limit, ReadMaxId + 1)
        IN  /\ Range(listed) = Overdue
            /\ Len(listed) = Cardinality(Overdue)
    /\ get_task_stats(tasks, today).overdue = Cardinality(Overdue)

\* A listing has just returned the one overdue row; the other row is past
\* its due date too, but completed, and is left out.
C14_Witness ==
    /\ response.op = "get_tasks"
    /\ Cardinality(Overdue) = 1
    /\ response.body = Ascending(Overdue)
    /\ \E task_id \in DOMAIN tasks :
        tasks[task_id].status = "completed" /\ tasks[task_id].due_date < today

\* Does the row satisfy the filters supplied (None: not supplied).
Satisfies(row, priority, status, overdue) ==
    /\ priority # None => row.priority = priority[1]
    /\ status # None => row.status = status[1]
    /\ overdue = Some(TRUE) => is_overdue(row, today)

\* A page of get_tasks holds at most limit rows, each satisfying every
\* supplied filter, and they are the rows at the positions
\* (page-1)*limit+1 .. page*limit of the filtered table.
PageIsRight(priority, status, overdue, page, limit) ==
    LET result == get_tasks(tasks, today, priority, status, overdue, page, limit)
        filtered == Ascending({task_id \in DOMAIN tasks :
                        Satisfies(tasks[task_id], priority, status, overdue)})
    IN  /\ Len(result) <= limit
        /\ \A i \in DOMAIN result :
            Satisfies(tasks[result[i]], priority, status, overdue)
        /\ \A i \in 1..limit :
            LET position == (page - 1) * limit + i
            IN  IF position <= Len(filtered)
                THEN i <= Len(result) /\ result[i] = filtered[position]
                ELSE i > Len(result)

\* C15: for every combination of the priority, status and overdue=true
\* filters and every page and limit, the page is right.
C15_FilteredPages ==
    \A priority \in ReadPriorities, status \in ReadStatuses,
       overdue \in {None, Some(TRUE)}, page \in ReadPages, limit \in ReadLimits :
        PageIsRight(priority, status, overdue, page, limit)

\* The same for filters that are absent or not the empty string.
C15_NonEmptyFilters ==
    \A priority \in ReadPriorities \ {Some("")},
       status \in ReadStatuses \ {Some("")},
       overdue \in {None, Some(TRUE)}, page \in ReadPages, limit \in ReadLimits :
        PageIsRight(priority, status, overdue, page, limit)

-----------------------------------------------------------------------------
(* The order of the checks of update_task (SpecOrder).                     *)

\* C16: update_task reports the first failing check in the order id, due
\* date, priority, quota, and only then the transition table; an unknown id
\* is NotFound whatever the input is, and a due date not after today fails
\* with the due-date error whatever transition is requested.
C16_UpdateOrder ==
    [][response'.op = "update_task" =>
       \A task_id \in 1..(OrderMaxId + 1), task \in OrderUpdateBodies :
        update_task(task_id, task)
        => LET found == task_id \in DOMAIN tasks
               due == task.due_date <= today
               priority == task.priority \notin {"low", "medium", "high"}
               quota == task.priority = "high" /\ high_priority_count(tasks) >= 5
               outcome == TableOutcome(tasks[task_id].status, task.status)
           IN  /\ ~found => response' = HTTPException("update_task", 404, NotFound)
               /\ found /\ due => response'.detail = InvalidDueDate
               /\ found /\ ~due /\ priority => response'.detail = InvalidPriority
               /\ found /\ ~due /\ ~priority /\ quota
                    => response'.detail = UpdateQuota
               /\ found /\ ~due /\ ~priority /\ ~quota
                    => response'.detail =
                            IF outcome = "succeeds" THEN Ok ELSE outcome
               /\ found => response'.status_code \in {200, 400}]_vars

\* The quota is reached, and an update has just been refused for its due
\* date: with any other due date it would have failed a later check.
C16_Witness ==
    /\ high_priority_count(tasks) >= 5
    /\ response = HTTPException("update_task", 400, InvalidDueDate)

-----------------------------------------------------------------------------
(* The life of a row (SpecFields).                                         *)

\* C17: once the stored status of a row is completed, every update of it is
\* refused and changes nothing, a step that keeps the row keeps all its
\* fields, and the row goes only by a successful delete.
C17_CompletedIsFinal ==
    [][\A task_id \in DOMAIN tasks :
        tasks[task_id].status = "completed"
        => /\ response'.op = "update_task"
                => \A task \in FieldsBodies :
                    update_task_counting(task_id, task, TRUE)
                    => response'.status_code = 400 /\ tasks' = tasks
           /\ delete_task(task_id)
                => /\ response' = Returned("delete_task", 0, Deleted)
                   /\ task_id \notin DOMAIN tasks'
           /\ task_id \in DOMAIN tasks' => tasks'[task_id] = tasks[task_id]
           /\ task_id \notin DOMAIN tasks'
                => response' = Returned("delete_task", 0, Deleted)]_vars

\* A row has been completed by its second update, and a further update of
\* the table has just been refused.
C17_Witness ==
    /\ response.op = "update_task"
    /\ response.status_code = 400
    /\ \E task_id \in DOMAIN tasks :
        tasks[task_id].status = "completed" /\ hist[task_id].updates = 2

\* The order of the statuses.
Rank(status) ==
    CASE status = "pending" -> 0
      [] status = "in_progress" -> 1
      [] status = "completed" -> 2

\* C18: a successful update moves the row to a later status in the order
\* pending < in_progress < completed and never stores pending; a row has at
\* most 2 successful updates; and a step that changes a field of a row
\* changes its status.
C18_StatusAdvances ==
    [][/\ (response'.op = "update_task" /\ response'.status_code = 200)
            => /\ Rank(tasks'[response'.id].status)
                    > Rank(tasks[response'.id].status)
               /\ tasks'[response'.id].status # "pending"
       /\ \A task_id \in DOMAIN tasks \cap DOMAIN tasks' :
            tasks'[task_id] # tasks[task_id]
            => tasks'[task_id].status # tasks[task_id].status
       /\ \A task_id \in DOMAIN tasks' : hist'[task_id].updates <= 2]_vars

\* The second update of a row has just succeeded and completed it.
C18_Witness ==
    /\ response.op = "update_task"
    /\ response.status_code = 200
    /\ tasks[response.id].status = "completed"
    /\ hist[response.id].updates = 2

-----------------------------------------------------------------------------
(* Due dates while the date advances (SpecDays).                           *)

\* C19: with the date advancing between requests, the row a successful
\* create or update has just written has its due date after today and is
\* not overdue; an update of an overdue row with a due date not after today
\* is refused, so the status of an overdue row changes only in a step that
\* leaves it with a due date after today.
C19_DueAfterToday ==
    [][today' = today =>
       /\ (response'.status_code = 200
            /\ response'.op \in {"create_task", "update_task"})
            => /\ tasks'[response'.id].due_date > today
               /\ ~is_overdue(tasks'[response'.id], today)
       /\ \A task_id \in DOMAIN tasks :
            is_overdue(tasks[task_id], today)
            => /\ response'.op = "update_task"
                    => \A task \in DaysBodies :
                        (task.due_date <= today /\ update_task(task_id, task))
                        => /\ response'.status_code = 400
                           /\ tasks' = tasks
               /\ (/\ task_id \in DOMAIN tasks'
                   /\ tasks'[task_id].status # tasks[task_id].status)
                    => tasks'[task_id].due_date > today]_vars

\* A row is overdue and still pending, and an update has just been refused
\* for its due date.
C19_Witness ==
    /\ response = HTTPException("update_task", 400, InvalidDueDate)
    /\ \E task_id \in DOMAIN tasks :
        is_overdue(tasks[task_id], today) /\ tasks[task_id].status = "pending"

====
